---- MODULE Spec2Model ----
(***************************************************************************)
(* hoyt-fantasy-stats: src/sleeper_stats.py.                               *)
(*                                                                         *)
(* SleeperStats fetches a league's users, rosters and weekly matchups,     *)
(* flattens them into one record per (week, roster), loads them into the   *)
(* in-memory table "matchups" with a window-ranked winner flag, prints     *)
(* eight fixed reports and then reads ad-hoc SQL from the operator.        *)
(*                                                                         *)
(* Representation of Python / JSON values                                  *)
(*   None as a string            the string NoneStr                        *)
(*   matchup_id null             the integer NullId                        *)
(*   dict                        a function; d.get(k, x) is Get(d, k, x)   *)
(*   points                      integers (only their order is used)       *)
(*   a team name                 [kind, text, id]: kind "meta" is the text *)
(*                               of the user's metadata, "synthetic" is    *)
(*                               f'Team_{id}', "none" is Python None       *)
(*   a response body             [tag, items]: tag "list" with its items,  *)
(*                               tag "null" for a body without a length    *)
(*   json.dumps(player_scores)   the dict's (key, value) pairs in          *)
(*                               insertion order                           *)
(***************************************************************************)
EXTENDS Integers, Sequences, FiniteSets, TLC

VARIABLES
    pc,             \* position of main(): the next step to run
    league_info,    \* self.league_info
    week,           \* loop variable of fetch_matchups / fetch_playoff_matchups
    server,         \* what the remote API holds (chosen once, never written)
    skips,          \* non-200 answers given so far (bounds the environment)
    users,          \* self.users
    rosters,        \* self.rosters
    by_week,        \* matchups_by_week / playoff_weeks, local to the running fetch
    matchups,       \* self.matchups
    requested,      \* history: week -> how the request of that week ended
    table,          \* the DuckDB table "matchups": [exists, rows]
    built,          \* history: the table as build_database created it
    out,            \* what the last report / query printed or returned
    line,           \* history: the last line input() returned
    query,          \* the text main() handed to interactive_query
    event,          \* history: the last thing the interactive loop did
    executed,       \* history: how many times interactive_query has run
    reads,          \* history: lines read by the interactive loop
    crash           \* "" or the step whose uncaught exception ended the process

vars == <<pc, league_info, week, server, skips, users, rosters, by_week, matchups,
          requested, table, built, out, line, query, event, executed, reads, crash>>

-----------------------------------------------------------------------------
(* Bounds of the model *)

\* entries in a generated weekly body
MaxEntries == 2
\* rows of the long single-week bodies that exercise LIMIT 10
MaxRows == 11
\* non-200 answers the API gives in one run
MaxSkips == 1
\* weeks of the season the API has results for
MaxPlayed == 1
\* lines the interactive loop reads in one run
MaxReads == 3

(* Program constants *)

\* range(1, 18): regular season weeks 1..17
RegularWeeks == 17
\* range(1, 5): playoff weeks 18..21
PlayoffWeeks == 4
\* LIMIT 10 of stat_2_top_10_scores_overall
Stat2Limit == 10
\* LIMIT 10 of stat_3b_top_10_lowest_scores_overall
Stat3bLimit == 10

NoneStr == "None"
NullId == 0

-----------------------------------------------------------------------------
(* Python helpers *)

\* dict.get(key, default)
Get(d, k, default) == IF k \in DOMAIN d THEN d[k] ELSE default

Range(s) == {s[i] : i \in DOMAIN s}

Min(a, b) == IF a <= b THEN a ELSE b

\* the elements of a finite set of integers in ascending order
RECURSIVE Ascending(_)
Ascending(S) ==
    IF S = {} THEN <<>>
    ELSE LET m == CHOOSE x \in S : \A y \in S : x <= y
         IN <<m>> \o Ascending(S \ {m})

\* sum of f[x] over x in S
RECURSIVE Sum(_, _)
Sum(f, S) ==
    IF S = {} THEN 0
    ELSE LET x == CHOOSE y \in S : TRUE IN f[x] + Sum(f, S \ {x})

\* every enumeration of the finite set S in non-increasing order of key[x];
\* elements with equal keys come in every order (the engine picks one)
RECURSIVE SortedDesc(_, _)
SortedDesc(S, key) ==
    IF S = {} THEN {<<>>}
    ELSE LET top == {x \in S : \A y \in S : key[y] <= key[x]}
         IN UNION {{<<x>> \o s : s \in SortedDesc(S \ {x}, key)} : x \in top}

\* the same in non-decreasing order
SortedAsc(S, key) == SortedDesc(S, [x \in S |-> 0 - key[x]])

-----------------------------------------------------------------------------
(* build_database: one flat record per (week, roster) *)

AbsentKey == "<absent>"

\* f'Team_{roster_id}'
SyntheticName(roster_id) == [kind |-> "synthetic", text |-> "Team_", id |-> roster_id]
\* a team_name string read from the user's metadata
MetaName(t) == [kind |-> "meta", text |-> t, id |-> 0]
\* a team_name of JSON null
NoneName == [kind |-> "none", text |-> "", id |-> 0]

\* {} read as a user: no 'metadata' key
EmptyUser == [metadata |-> [tag |-> "absent", team_name |-> AbsentKey]]

\* roster = self.rosters.get(roster_id, {}); owner_id = roster.get('owner_id')
OwnerOf(ros, roster_id) ==
    IF roster_id \in DOMAIN ros THEN ros[roster_id].owner_id ELSE NoneStr

\* user = self.users.get(owner_id, {})
UserOf(us, owner_id) == Get(us, owner_id, EmptyUser)

\* user.get('metadata', {}) is None when the key holds null, and None.get raises
TeamNameRaises(user) == user.metadata.tag = "null"

\* user.get('metadata', {}).get('team_name', f'Team_{roster_id}')
TeamName(user, roster_id) ==
    IF user.metadata.tag = "dict" /\ user.metadata.team_name # AbsentKey
    THEN IF user.metadata.team_name = NoneStr THEN NoneName
         ELSE MetaName(user.metadata.team_name)
    ELSE SyntheticName(roster_id)

\* matchup.get('points', 0)
PointsOf(m) == IF m.has_points THEN m.points ELSE 0

\* value of key k in a list of (key, value) pairs, else default
PairsGet(pairs, k, default) ==
    IF \E i \in DOMAIN pairs : pairs[i][1] = k
    THEN pairs[CHOOSE i \in DOMAIN pairs : pairs[i][1] = k][2]
    ELSE default

\* the loop over matchup['players']: player_scores keeps the strictly positive
\* scores, one key per player id, in the order the ids are first met
RECURSIVE PlayerScoresFrom(_, _, _)
PlayerScoresFrom(m, i, acc) ==
    IF i > Len(m.players) THEN acc
    ELSE LET pid == m.players[i]
             score == PairsGet(m.players_points, pid, 0)
         IN IF score > 0 /\ ~(\E j \in DOMAIN acc : acc[j][1] = pid)
            THEN PlayerScoresFrom(m, i + 1, Append(acc, <<pid, score>>))
            ELSE PlayerScoresFrom(m, i + 1, acc)

PlayerScores(m) == PlayerScoresFrom(m, 1, <<>>)

\* max(player_scores, key=player_scores.get): the first key with the greatest score
TopPlayerIndex(ps) ==
    CHOOSE i \in DOMAIN ps :
        /\ \A j \in DOMAIN ps : ps[j][2] <= ps[i][2]
        /\ \A j \in DOMAIN ps : j < i => ps[j][2] < ps[i][2]

TopPlayerId(ps) == IF ps # <<>> THEN ps[TopPlayerIndex(ps)][1] ELSE NoneStr

TopPlayerScore(ps) == IF ps # <<>> THEN ps[TopPlayerIndex(ps)][2] ELSE 0

\* the dict appended to matchup_records
MatchupRecord(w, m, us, ros) ==
    [week |-> w,
     roster_id |-> m.roster_id,
     team_name |-> TeamName(UserOf(us, OwnerOf(ros, m.roster_id)), m.roster_id),
     matchup_id |-> m.matchup_id,
     points |-> PointsOf(m),
     top_player_id |-> TopPlayerId(PlayerScores(m)),
     top_player_score |-> TopPlayerScore(PlayerScores(m)),
     players_json |-> PlayerScores(m)]

\* the records of the weeks ws (a sequence of keys of mt), in that order
RECURSIVE RecordsOfWeeks(_, _, _, _)
RecordsOfWeeks(ws, mt, us, ros) ==
    IF ws = <<>> THEN <<>>
    ELSE LET w == Head(ws)
         IN [i \in 1..Len(mt[w].items) |-> MatchupRecord(w, mt[w].items[i], us, ros)]
            \o RecordsOfWeeks(Tail(ws), mt, us, ros)

\* for week, matchups in self.matchups.items(): the dict is filled in ascending
\* week order (regular season, then update() with the playoff weeks)
MatchupRecords(mt, us, ros) == RecordsOfWeeks(Ascending(DOMAIN mt), mt, us, ros)

\* build_database raises: a stored body that cannot be iterated, a user whose
\* metadata is null, or no record at all (a frame without columns has no
\* column "week" for the CREATE TABLE to select)
BuildRaises(mt, us, ros) ==
    \/ \E w \in DOMAIN mt : mt[w].tag # "list"
    \/ \E w \in DOMAIN mt : \E i \in DOMAIN mt[w].items :
          TeamNameRaises(UserOf(us, OwnerOf(ros, mt[w].items[i].roster_id)))
    \/ \A w \in DOMAIN mt : mt[w].items = <<>>

\* a faulty variant: PARTITION BY week alone
PartitionByWeek(recs, i) == {j \in DOMAIN recs : recs[j].week = recs[i].week}

\* PARTITION BY week, matchup_id: the row numbers of the partition of row i
PartitionOf(recs, i) ==
    {j \in DOMAIN recs : recs[j].week = recs[i].week
                         /\ recs[j].matchup_id = recs[i].matchup_id}

Partitions(recs) == {PartitionOf(recs, i) : i \in DOMAIN recs}

\* a faulty variant: ORDER BY points ASC
RowOrdersAscending(recs, P) == SortedAsc(P, [i \in P |-> recs[i].points])

\* ORDER BY points DESC inside one partition
RowOrders(recs, P) == SortedDesc(P, [i \in P |-> recs[i].points])

\* ROW_NUMBER() of the rows of one partition listed in the order o
RowNumbers(o) == [i \in Range(o) |-> CHOOSE k \in DOMAIN o : o[k] = i]

\* every assignment of rank_in_matchup the window function can produce
RECURSIVE RankAll(_, _)
RankAll(recs, parts) ==
    IF parts = {} THEN {[i \in {} |-> 0]}
    ELSE LET P == CHOOSE Q \in parts : TRUE
         IN {RowNumbers(o) @@ rest :
                o \in RowOrders(recs, P), rest \in RankAll(recs, parts \ {P})}

\* CASE WHEN rank_in_matchup = 1 THEN 1 ELSE 0 END
WonOf(rank) == IF rank = 1 THEN 1 ELSE 0

\* a row of CREATE TABLE matchups
TableRow(rec, rank) ==
    [week |-> rec.week,
     roster_id |-> rec.roster_id,
     team_name |-> rec.team_name,
     matchup_id |-> rec.matchup_id,
     points |-> rec.points,
     top_player_id |-> rec.top_player_id,
     top_player_score |-> rec.top_player_score,
     players_json |-> rec.players_json,
     won |-> WonOf(rank),
     rank_in_matchup |-> rank]

\* the tables CREATE TABLE matchups AS ... can produce from the records
RankedMatchups(recs) ==
    {[i \in DOMAIN recs |-> TableRow(recs[i], rk[i])] : rk \in RankAll(recs, Partitions(recs))}

NoTable == [exists |-> FALSE, rows |-> <<>>]
NoOut == [kind |-> "none", rows |-> <<>>]

BuildDatabase ==
    /\ pc = "build"
    /\ IF BuildRaises(matchups, users, rosters)
       THEN /\ pc' = "exit"
            /\ crash' = "build_database"
            /\ UNCHANGED <<table, built>>
       ELSE /\ \E rows \in RankedMatchups(MatchupRecords(matchups, users, rosters)) :
                  /\ table' = [exists |-> TRUE, rows |-> rows]
                  /\ built' = [exists |-> TRUE, rows |-> rows]
            /\ pc' = "stat_1"
            /\ crash' = crash
    /\ UNCHANGED <<league_info, week, server, skips, users, rosters, by_week, matchups,
                   requested, out, line, query, event, executed, reads>>

-----------------------------------------------------------------------------
(* The fixed reports.  t is the sequence of rows of the table; a row is named
   by its position in t.  An aggregate AVG(points) is kept exact as [sum, n].
   STRING_AGG has no ORDER BY: its weeks are kept as a bag, week -> occurrences. *)

Rows(t) == DOMAIN t

WeeksOf(t) == {t[i].week : i \in Rows(t)}

PointsKey(t, S) == [i \in S |-> t[i].points]

\* a faulty variant: one row too many
LimitPlusOne(s, k) == SubSeq(s, 1, Min(k + 1, Len(s)))

\* the first k elements of a sequence
Limit(s, k) == SubSeq(s, 1, Min(k, Len(s)))

Position(o, x) == CHOOSE k \in DOMAIN o : o[k] = x

WeeksBag(t, S) ==
    [w \in {t[i].week : i \in S} |-> Cardinality({i \in S : t[i].week = w})]

Avg(t, S) == [sum |-> Sum(PointsKey(t, S), S), n |-> Cardinality(S)]

\* a < b for two averages
AvgLess(a, b) == a.sum * b.n < b.sum * a.n

MinPoints(t, S) == CHOOSE p \in {t[i].points : i \in S} : \A i \in S : p <= t[i].points

MaxPoints(t, S) == CHOOSE p \in {t[i].points : i \in S} : \A i \in S : t[i].points <= p

\* GROUP BY team_name over the rows S
TeamsOf(t, S) == {t[i].team_name : i \in S}

Members(t, S, team) == {i \in S : t[i].team_name = team}

\* ROW_NUMBER() OVER (PARTITION BY week ORDER BY points DESC|ASC) ... WHERE rank = 1:
\* the sets of rows, one per week, the engine can number 1 (sign 1 for DESC,
\* -1 for ASC)
WeeklyFirst(t, sign) ==
    {{f[w] : w \in WeeksOf(t)} :
        f \in {g \in [WeeksOf(t) -> Rows(t)] :
                 \A w \in WeeksOf(t) :
                    /\ t[g[w]].week = w
                    /\ \A j \in Rows(t) :
                          t[j].week = w => sign * t[g[w]].points >= sign * t[j].points}}

\* SELECT team_name, COUNT(*), STRING_AGG(week) ... GROUP BY team_name
CountGroups(t, S) ==
    {[team_name |-> team,
      count |-> Cardinality(Members(t, S, team)),
      weeks |-> WeeksBag(t, Members(t, S, team))] : team \in TeamsOf(t, S)}

\* SELECT team_name, COUNT(*), AVG(points), STRING_AGG(week) ... GROUP BY team_name
CountAvgGroups(t, S) ==
    {[team_name |-> team,
      count |-> Cardinality(Members(t, S, team)),
      avg_points |-> Avg(t, Members(t, S, team)),
      weeks |-> WeeksBag(t, Members(t, S, team))] : team \in TeamsOf(t, S)}

\* SELECT team_name, COUNT(*), AVG(points), MIN(points), MAX(points) ... GROUP BY team_name
AvgGroups(t, S) ==
    {[team_name |-> team,
      count |-> Cardinality(Members(t, S, team)),
      avg_points |-> Avg(t, Members(t, S, team)),
      min_points |-> MinPoints(t, Members(t, S, team)),
      max_points |-> MaxPoints(t, Members(t, S, team))] : team \in TeamsOf(t, S)}

\* ORDER BY <count> DESC
ByCountDesc(G) == SortedDesc(G, [g \in G |-> g.count])

\* ORDER BY <avg> DESC: the key of a group is the number of groups of smaller average
ByAvgDesc(G) ==
    SortedDesc(G, [g \in G |-> Cardinality({h \in G : AvgLess(h.avg_points, g.avg_points)})])

\* stat_1_highest_scores_by_week
Stat1Results(t) ==
    UNION {ByCountDesc(CountGroups(t, S)) : S \in WeeklyFirst(t, 1)}

\* the rows of SELECT team_name, week, points, ROW_NUMBER() ... in the order o,
\* numbered by the window order r
ScoreRows(t, o, r) ==
    [k \in DOMAIN o |-> [team_name |-> t[o[k]].team_name,
                         week |-> t[o[k]].week,
                         points |-> t[o[k]].points,
                         rank |-> Position(r, o[k])]]

\* stat_2_top_10_scores_overall: ORDER BY points DESC LIMIT 10
Stat2Results(t) ==
    {Limit(ScoreRows(t, o, r), Stat2Limit) :
        o \in SortedDesc(Rows(t), PointsKey(t, Rows(t))),
        r \in SortedDesc(Rows(t), PointsKey(t, Rows(t)))}

\* stat_3_lowest_scores_by_week
Stat3Results(t) ==
    UNION {ByCountDesc(CountGroups(t, S)) : S \in WeeklyFirst(t, -1)}

\* stat_3b_top_10_lowest_scores_overall: ORDER BY points ASC LIMIT 10
Stat3bResults(t) ==
    {Limit(ScoreRows(t, o, r), Stat3bLimit) :
        o \in SortedAsc(Rows(t), PointsKey(t, Rows(t))),
        r \in SortedAsc(Rows(t), PointsKey(t, Rows(t)))}

\* weekly_lowest: MIN(points) GROUP BY week
WeeklyLowest(t, w) == MinPoints(t, {i \in Rows(t) : t[i].week = w})

\* wins_vs_lowest: WHERE m.points = wl.lowest_score AND m.won = 1
WinsVsLowest(t) ==
    {i \in Rows(t) : t[i].points = WeeklyLowest(t, t[i].week) /\ t[i].won = 1}

\* stat_4_most_wins_vs_lowest_score
Stat4Results(t) == ByCountDesc(CountAvgGroups(t, WinsVsLowest(t)))

\* weekly_highest: MAX(points) GROUP BY week
WeeklyHighest(t, w) == MaxPoints(t, {i \in Rows(t) : t[i].week = w})

\* a faulty variant: the filter on won is lost
HighestScorers(t) == {i \in Rows(t) : t[i].points = WeeklyHighest(t, t[i].week)}

\* losses_vs_highest: WHERE m.points = wh.highest_score AND m.won = 0
LossesVsHighest(t) ==
    {i \in Rows(t) : t[i].points = WeeklyHighest(t, t[i].week) /\ t[i].won = 0}

\* stat_5_most_losses_vs_highest_score
Stat5Results(t) == ByCountDesc(CountAvgGroups(t, LossesVsHighest(t)))

\* stat_6_avg_points_in_win: WHERE won = 1
Stat6Results(t) == ByAvgDesc(AvgGroups(t, {i \in Rows(t) : t[i].won = 1}))

\* stat_7_avg_points_in_loss: WHERE won = 0
Stat7Results(t) == ByAvgDesc(AvgGroups(t, {i \in Rows(t) : t[i].won = 0}))

\* One report of run_all_stats: it reads the table, prints a frame and moves on
Report(name, results, next) ==
    /\ pc = name
    /\ table.exists
    /\ \E rows \in results : out' = [kind |-> name, rows |-> rows]
    /\ pc' = next
    /\ UNCHANGED <<league_info, week, server, skips, users, rosters, by_week, matchups,
                   requested, table, built, line, query, event, executed, reads, crash>>

Stat1 == Report("stat_1", Stat1Results(table.rows), "stat_2")
Stat2 == Report("stat_2", Stat2Results(table.rows), "stat_3")
Stat3 == Report("stat_3", Stat3Results(table.rows), "stat_3b")
Stat3b == Report("stat_3b", Stat3bResults(table.rows), "stat_4")
Stat4 == Report("stat_4", Stat4Results(table.rows), "stat_5")
Stat5 == Report("stat_5", Stat5Results(table.rows), "stat_6")
Stat6 == Report("stat_6", Stat6Results(table.rows), "stat_7")
Stat7 == Report("stat_7", Stat7Results(table.rows), "prompt")

-----------------------------------------------------------------------------
(* Fetched data the table is built from: bounded families of
   (users, rosters, matchups) as the fetch steps can leave them *)

EmptyDict == [k \in {} |-> 0]

ListBody(items) == [tag |-> "list", items |-> items]
NullBody == [tag |-> "null", items |-> <<>>]

\* a matchup entry of the API without player data
EntryOf(r, m, p) ==
    [roster_id |-> r, matchup_id |-> m, points |-> p, has_points |-> TRUE,
     players |-> <<>>, players_points |-> <<>>]

UserWith(tag, team_name) == [metadata |-> [tag |-> tag, team_name |-> team_name]]

MatchupIds == {NullId, 1}
PointValues == 0..2

\* every body of at most MaxEntries entries; entry i belongs to roster i
GeneratedBodies ==
    UNION {{[i \in 1..n |-> EntryOf(i, f[i][1], f[i][2])] :
              f \in [1..n -> MatchupIds \X PointValues]} : n \in 0..MaxEntries}

\* week 2: not stored, a tied pair, or a partition of three with a tie at the top
SecondWeeks ==
    {EmptyDict,
     2 :> ListBody(<<EntryOf(1, 1, 5), EntryOf(2, 1, 5)>>),
     2 :> ListBody(<<EntryOf(1, 1, 7), EntryOf(2, 1, 3), EntryOf(3, 1, 7)>>)}

LeagueUsers == ("u1" :> UserWith("dict", "Alpha")) @@ ("u2" :> UserWith("dict", AbsentKey))
LeagueRosters == (1 :> [owner_id |-> "u1"]) @@ (2 :> [owner_id |-> "u2"])

\* ranking: every small week 1, with or without a week 2
RankingInputs ==
    {[users |-> LeagueUsers, rosters |-> LeagueRosters,
      matchups |-> (1 :> ListBody(b)) @@ w2] : b \in GeneratedBodies, w2 \in SecondWeeks}

\* the 'metadata' of a user: key absent, null, {}, a name, a null name
MetadataVariants ==
    {UserWith("absent", AbsentKey), UserWith("null", AbsentKey),
     UserWith("dict", AbsentKey), UserWith("dict", "Alpha"), UserWith("dict", NoneStr)}

UsersVariants == {EmptyDict} \cup {"u1" :> u : u \in MetadataVariants}

\* roster 1: not fetched, without owner, owned by u1, owned by somebody unknown
RostersVariants ==
    {EmptyDict} \cup {1 :> [owner_id |-> o] : o \in {NoneStr, "u1", "u9"}}

\* entries with and without 'points', 'players' and 'players_points'
PlayerEntries ==
    {[roster_id |-> 1, matchup_id |-> 1, points |-> 2, has_points |-> hp,
      players |-> ps, players_points |-> pp] :
        hp \in BOOLEAN,
        ps \in {<<>>, <<"p1", "p2", "p3">>, <<"p2", "p1", "p2">>},
        pp \in {<<>>, <<<<"p1", 5>>, <<"p2", 7>>>>,
                <<<<"p1", 7>>, <<"p2", 7>>, <<"p3", 0>>>>, <<<<"p1", 0>>>>}}

\* team names and player scores: one week of roster 1 against roster 2
NamingInputs ==
    {[users |-> us, rosters |-> ros,
      matchups |-> 1 :> ListBody(<<e, EntryOf(2, 1, 1)>>)] :
        us \in UsersVariants, ros \in RostersVariants, e \in PlayerEntries}

\* points of row i of a long body of n rows: ascending, descending or mixed
Arranged(a, n, i) ==
    CASE a = "asc" -> i
      [] a = "desc" -> n + 1 - i
      [] OTHER -> ((i * 7) % 13) + 1

\* long bodies around the LIMIT of the top-10 reports: rosters paired two by two,
\* all points distinct (tie = 0) or row tie sharing the points of the next row
LongBodies ==
    {[i \in 1..n |->
        EntryOf(i, (i + 1) \div 2,
                IF i = tie THEN Arranged(a, n, (i % n) + 1) ELSE Arranged(a, n, i))] :
        n \in (Stat2Limit - 1)..MaxRows, a \in {"asc", "desc", "mixed"}, tie \in 0..MaxRows}

LongInputs ==
    {[users |-> LeagueUsers, rosters |-> LeagueRosters, matchups |-> 1 :> ListBody(b)] :
        b \in LongBodies}

DatabaseInputs == RankingInputs \cup NamingInputs \cup LongInputs

\* the API of a league whose season has results for weeks 1..played
ServerOf(played) ==
    [users |-> LeagueUsers, rosters |-> LeagueRosters,
     body |-> [w \in 1..(RegularWeeks + PlayoffWeeks) |->
                 IF w <= played
                 THEN ListBody(<<EntryOf(1, 1, 120 + w), EntryOf(2, 1, 99 - w)>>)
                 ELSE ListBody(<<>>)]]

\* the object after the fetch steps returned, about to build the database
InitDB ==
    /\ pc = "build"
    /\ league_info = "league"
    /\ week = 0
    /\ server = ServerOf(0)
    /\ skips = 0
    /\ \E d \in DatabaseInputs :
          /\ users = d.users
          /\ rosters = d.rosters
          /\ matchups = d.matchups
    /\ by_week = EmptyDict
    /\ requested = EmptyDict
    /\ table = NoTable
    /\ built = NoTable
    /\ out = NoOut
    /\ line = <<>>
    /\ query = <<>>
    /\ event = "none"
    /\ executed = 0
    /\ reads = 0
    /\ crash = ""

NextDB ==
    \/ BuildDatabase
    \/ Stat1 \/ Stat2 \/ Stat3 \/ Stat3b \/ Stat4 \/ Stat5 \/ Stat6
    \/ Stat7

SpecDB == InitDB /\ [][NextDB]_vars

-----------------------------------------------------------------------------
(* Text typed at the prompt: a line is the sequence of its characters *)

QuitText == <<"q", "u", "i", "t">>
SelectText == <<"S", "E", "L", "E", "C", "T", " ", "*", " ", "F", "R", "O", "M", " ", "m", "a", "t", "c", "h", "u", "p", "s">>
SelektText == <<"S", "E", "L", "E", "K", "T", " ", "*", " ", "F", "R", "O", "M", " ", "m", "a", "t", "c", "h", "u", "p", "s">>
DeleteText == <<"D", "E", "L", "E", "T", "E", " ", "F", "R", "O", "M", " ", "m", "a", "t", "c", "h", "u", "p", "s">>
DropText == <<"D", "R", "O", "P", " ", "T", "A", "B", "L", "E", " ", "m", "a", "t", "c", "h", "u", "p", "s">>
UpdateText == <<"U", "P", "D", "A", "T", "E", " ", "m", "a", "t", "c", "h", "u", "p", "s", " ", "S", "E", "T", " ", "w", "o", "n", " ", "=", " ", "1">>
InsertText == <<"I", "N", "S", "E", "R", "T", " ", "I", "N", "T", "O", " ", "m", "a", "t", "c", "h", "u", "p", "s", " ", "S", "E", "L", "E", "C", "T", " ", "*", " ", "F", "R", "O", "M", " ", "m", "a", "t", "c", "h", "u", "p", "s">>

\* the lines the operator types
Lines ==
    {QuitText,
     <<"Q", "U", "I", "T">>,
     <<" ", " ", "Q", "u", "i", "t", "\t">>,
     <<"q", "u", "i", "t", ";">>,
     <<>>,
     <<" ", " ", " ">>,
     SelectText,
     <<" ">> \o SelectText \o <<" ">>,
     SelektText, DeleteText, DropText, UpdateText, InsertText}

Whitespace == {" ", "\t"}

\* str.strip()
RECURSIVE LStrip(_)
LStrip(s) == IF s # <<>> /\ Head(s) \in Whitespace THEN LStrip(Tail(s)) ELSE s

RECURSIVE RStrip(_)
RStrip(s) ==
    IF s # <<>> /\ s[Len(s)] \in Whitespace THEN RStrip(SubSeq(s, 1, Len(s) - 1)) ELSE s

Strip(s) == RStrip(LStrip(s))

\* a faulty variant: the comparison with 'quit' keeps the case
LowerUnchanged(s) == s

\* str.lower() on the letters the lines use
LowerChar(c) ==
    CASE c = "Q" -> "q" [] c = "U" -> "u" [] c = "I" -> "i" [] c = "T" -> "t"
      [] c = "S" -> "s" [] c = "E" -> "e" [] c = "L" -> "l" [] c = "C" -> "c"
      [] c = "K" -> "k" [] c = "F" -> "f" [] c = "R" -> "r" [] c = "O" -> "o"
      [] c = "M" -> "m" [] c = "D" -> "d" [] c = "P" -> "p" [] c = "A" -> "a"
      [] c = "B" -> "b" [] c = "N" -> "n" [] c = "W" -> "w"
      [] OTHER -> c

Lower(s) == [i \in DOMAIN s |-> LowerChar(s[i])]

-----------------------------------------------------------------------------
(* The fetch steps of main().  A request ends in one of:
     "raise"    requests.get raises (transport failure)
     "decode"   the answer is 200 and response.json() raises
     "non200"   the answer has another status than 200
     "stored"   the answer is 200 and its body is a list
     "unsized"  the answer is 200 and its body is null                       *)

Init ==
    /\ pc = "fetch_league_info"
    /\ league_info = NoneStr
    /\ week = 0
    /\ server \in {ServerOf(played) : played \in 0..MaxPlayed}
    /\ skips = 0
    /\ users = EmptyDict
    /\ rosters = EmptyDict
    /\ by_week = EmptyDict
    /\ matchups = EmptyDict
    /\ requested = EmptyDict
    /\ table = NoTable
    /\ built = NoTable
    /\ out = NoOut
    /\ line = <<>>
    /\ query = <<>>
    /\ event = "none"
    /\ executed = 0
    /\ reads = 0
    /\ crash = ""

\* an exception nothing catches leaves main(): the process ends with a traceback
Uncaught(step) ==
    /\ pc' = "exit"
    /\ crash' = step

\* fetch_league_info: no handler around the request
FetchLeagueInfo ==
    /\ pc = "fetch_league_info"
    /\ \E outcome \in {"stored", "raise"} :
          IF outcome = "stored"
          THEN /\ league_info' = "league"
               /\ pc' = "fetch_users"
               /\ crash' = crash
          ELSE /\ Uncaught("fetch_league_info")
               /\ league_info' = league_info
    /\ UNCHANGED <<week, server, skips, users, rosters, by_week, matchups, requested,
                   table, built, out, line, query, event, executed, reads>>

\* fetch_users: no handler around the request
FetchUsers ==
    /\ pc = "fetch_users"
    /\ \E outcome \in {"stored", "raise"} :
          IF outcome = "stored"
          THEN /\ users' = server.users
               /\ pc' = "fetch_rosters"
               /\ crash' = crash
          ELSE /\ Uncaught("fetch_users")
               /\ users' = users
    /\ UNCHANGED <<league_info, week, server, skips, rosters, by_week, matchups,
                   requested, table, built, out, line, query, event, executed, reads>>

\* fetch_rosters: no handler around the request
FetchRosters ==
    /\ pc = "fetch_rosters"
    /\ \E outcome \in {"stored", "raise"} :
          IF outcome = "stored"
          THEN /\ rosters' = server.rosters
               /\ pc' = "fetch_matchups"
               /\ crash' = crash
          ELSE /\ Uncaught("fetch_rosters")
               /\ rosters' = rosters
    /\ UNCHANGED <<league_info, week, server, skips, users, by_week, matchups,
                   requested, table, built, out, line, query, event, executed, reads>>

\* the outcomes the API can still give (non-200 answers are bounded by MaxSkips)
Outcomes ==
    {"raise", "decode", "stored", "unsized"}
        \cup (IF skips < MaxSkips THEN {"non200"} ELSE {})

\* the try block of one week: what the dict holds after it
AfterTry(d, key, outcome) ==
    CASE outcome = "stored" -> (key :> server.body[key]) @@ d
      [] outcome = "unsized" -> (key :> NullBody) @@ d
      [] OTHER -> d

\* a faulty variant: only a failure of requests.get ends the loop, a body that
\* cannot be decoded lets it go on to the next week
RaisedByGetOnly(outcome) == outcome = "raise"

\* the try block raised: requests.get, response.json(), or len() of a body
\* without a length inside the progress message
Raised(outcome) == outcome \in {"raise", "decode", "unsized"}

\* one iteration of "for w in range(first, last + 1)": break on an exception
WeekStep(loop, return, key, last) ==
    /\ pc = loop
    /\ \E outcome \in Outcomes :
          /\ requested' = (key :> outcome) @@ requested
          /\ by_week' = AfterTry(by_week, key, outcome)
          /\ skips' = IF outcome = "non200" THEN skips + 1 ELSE skips
          /\ IF Raised(outcome) \/ week = last
             THEN pc' = return /\ week' = week
             ELSE pc' = loop /\ week' = week + 1
    /\ UNCHANGED <<league_info, server, users, rosters, matchups, table, built, out,
                   line, query, event, executed, reads, crash>>

\* fetch_matchups: matchups_by_week = {} and the first week
FetchMatchupsBegin ==
    /\ pc = "fetch_matchups"
    /\ by_week' = EmptyDict
    /\ week' = 1
    /\ pc' = "matchups_loop"
    /\ UNCHANGED <<league_info, server, skips, users, rosters, matchups, requested,
                   table, built, out, line, query, event, executed, reads, crash>>

\* for week in range(1, 18)
FetchMatchupsWeek == WeekStep("matchups_loop", "matchups_return", week, RegularWeeks)

\* self.matchups = matchups_by_week
FetchMatchupsReturn ==
    /\ pc = "matchups_return"
    /\ matchups' = by_week
    /\ pc' = "fetch_playoffs"
    /\ UNCHANGED <<league_info, week, server, skips, users, rosters, by_week, requested,
                   table, built, out, line, query, event, executed, reads, crash>>

\* fetch_playoff_matchups: playoff_weeks = {} and the first week
FetchPlayoffsBegin ==
    /\ pc = "fetch_playoffs"
    /\ by_week' = EmptyDict
    /\ week' = 1
    /\ pc' = "playoffs_loop"
    /\ UNCHANGED <<league_info, server, skips, users, rosters, matchups, requested,
                   table, built, out, line, query, event, executed, reads, crash>>

\* for week in range(1, 5): the key is week + 17
FetchPlayoffsWeek ==
    WeekStep("playoffs_loop", "playoffs_return", week + RegularWeeks, PlayoffWeeks)

\* self.matchups.update(playoff_weeks)
FetchPlayoffsReturn ==
    /\ pc = "playoffs_return"
    /\ matchups' = by_week @@ matchups
    /\ pc' = "build"
    /\ UNCHANGED <<league_info, week, server, skips, users, rosters, by_week, requested,
                   table, built, out, line, query, event, executed, reads, crash>>

\* main() from the construction of the object to its first prompt; the
\* interactive loop that follows is SpecLoop, started from the prompt
Next ==
    \/ FetchLeagueInfo \/ FetchUsers \/ FetchRosters
    \/ FetchMatchupsBegin \/ FetchMatchupsWeek \/ FetchMatchupsReturn
    \/ FetchPlayoffsBegin \/ FetchPlayoffsWeek \/ FetchPlayoffsReturn
    \/ BuildDatabase
    \/ Stat1 \/ Stat2 \/ Stat3 \/ Stat3b \/ Stat4 \/ Stat5 \/ Stat6 \/ Stat7

Spec == Init /\ [][Next]_vars

-----------------------------------------------------------------------------
(* The ad-hoc query gate and the interactive loop of main() *)

\* the exception classes met here
EngineError == "duckdb.Error"
ReadError == "EOFError"
Interrupted == "KeyboardInterrupt"

\* isinstance(e, Exception): KeyboardInterrupt derives from BaseException only
IsException(e) == e # Interrupted

\* a faulty variant: interactive_query without its handler
CatchesNothing(e) == FALSE

\* the "except Exception" of interactive_query
QueryHandlerCatches(e) == IsException(e)

\* the handlers of the loop: except KeyboardInterrupt: break, then
\* except Exception: print and go on
LoopHandler(e) ==
    IF e = Interrupted THEN "break"
    ELSE IF IsException(e) THEN "report" ELSE "propagate"

Done(t, rows) == [raises |-> FALSE, table |-> t, rows |-> rows]
Failed(t) == [raises |-> TRUE, table |-> t, rows |-> <<>>]

\* the frame of a statement that changes n rows
CountFrame(n) == <<[Count |-> n]>>

\* self.db.execute(query).df(): the outcomes of running the text q against the
\* connection whose table "matchups" is t.  Text the engine cannot parse and any
\* statement on a missing table raise; DROP leaves no result set, so that the
\* conversion to a frame may raise after the table is gone.
ExecuteOutcomes(t, q) ==
    IF q \notin {SelectText, DeleteText, DropText, UpdateText, InsertText} \/ ~t.exists
    THEN {Failed(t)}
    ELSE CASE q = SelectText -> {Done(t, t.rows)}
           [] q = DeleteText ->
                {Done([exists |-> TRUE, rows |-> <<>>], CountFrame(Len(t.rows)))}
           [] q = DropText -> {Done(NoTable, <<>>), Failed(NoTable)}
           [] q = UpdateText ->
                {Done([exists |-> TRUE,
                       rows |-> [i \in DOMAIN t.rows |-> [t.rows[i] EXCEPT !.won = 1]]],
                      CountFrame(Len(t.rows)))}
           [] q = InsertText ->
                {Done([exists |-> TRUE, rows |-> t.rows \o t.rows], CountFrame(Len(t.rows)))}

\* input() returned a line: strip it, leave on quit, run anything not blank
ReadLine ==
    /\ pc = "prompt"
    /\ reads < MaxReads
    /\ \E l \in Lines :
          /\ line' = l
          /\ query' = Strip(l)
          /\ IF Lower(Strip(l)) = QuitText
             THEN /\ pc' = "exit"
                  /\ event' = "quit"
             ELSE IF Strip(l) # <<>>
             THEN /\ pc' = "interactive_query"
                  /\ event' = "query"
             ELSE /\ pc' = "prompt"
                  /\ event' = "blank"
    /\ reads' = reads + 1
    /\ UNCHANGED <<league_info, week, server, skips, users, rosters, by_week, matchups,
                   requested, table, built, out, executed, crash>>

\* input() raised an exception (end of input): the loop handler decides
ReadFails ==
    /\ pc = "prompt"
    /\ reads < MaxReads
    /\ IF LoopHandler(ReadError) = "report"
       THEN /\ pc' = "prompt"
            /\ out' = [kind |-> "loop_error", rows |-> <<>>]
            /\ event' = "read_error"
            /\ crash' = crash
       ELSE /\ pc' = "exit"
            /\ out' = out
            /\ event' = "read_error"
            /\ crash' = IF LoopHandler(ReadError) = "propagate" THEN "main" ELSE crash
    /\ reads' = reads + 1
    /\ UNCHANGED <<league_info, week, server, skips, users, rosters, by_week, matchups,
                   requested, table, built, line, query, executed>>

\* the operator interrupts, at the prompt or while a query runs
Interrupt ==
    /\ pc \in {"prompt", "interactive_query"}
    /\ IF LoopHandler(Interrupted) = "break"
       THEN /\ pc' = "exit"
            /\ crash' = crash
       ELSE /\ pc' = "exit"
            /\ crash' = "main"
    /\ event' = "interrupt"
    /\ UNCHANGED <<league_info, week, server, skips, users, rosters, by_week, matchups,
                   requested, table, built, out, line, query, executed, reads>>

\* interactive_query(query): run the text, print the frame or the error
InteractiveQuery ==
    /\ pc = "interactive_query"
    /\ \E r \in ExecuteOutcomes(table, query) :
          /\ table' = r.table
          /\ IF ~r.raises
             THEN /\ out' = [kind |-> "frame", rows |-> r.rows]
                  /\ event' = "returned_frame"
                  /\ pc' = "prompt"
                  /\ crash' = crash
             ELSE IF QueryHandlerCatches(EngineError)
             THEN /\ out' = [kind |-> "query_error", rows |-> <<>>]
                  /\ event' = "returned_none"
                  /\ pc' = "prompt"
                  /\ crash' = crash
             ELSE IF LoopHandler(EngineError) = "report"
             THEN /\ out' = [kind |-> "loop_error", rows |-> <<>>]
                  /\ event' = "raised"
                  /\ pc' = "prompt"
                  /\ crash' = crash
             ELSE /\ out' = out
                  /\ event' = "raised"
                  /\ pc' = "exit"
                  /\ crash' = IF LoopHandler(EngineError) = "propagate" THEN "main" ELSE crash
    /\ executed' = executed + 1
    /\ UNCHANGED <<league_info, week, server, skips, users, rosters, by_week, matchups,
                   requested, built, line, query, reads>>

\* main() at its first prompt after a run without failures: every week answered
\* 200, the table is built and the last report is printed
InitLoop ==
    /\ pc = "prompt"
    /\ league_info = "league"
    /\ week = PlayoffWeeks
    /\ server \in {ServerOf(played) : played \in 1..MaxPlayed}
    /\ skips = 0
    /\ users = server.users
    /\ rosters = server.rosters
    /\ by_week = [w \in (RegularWeeks + 1)..(RegularWeeks + PlayoffWeeks) |-> server.body[w]]
    /\ matchups = server.body
    /\ requested = [w \in 1..(RegularWeeks + PlayoffWeeks) |-> "stored"]
    /\ table \in {[exists |-> TRUE, rows |-> rows] :
                    rows \in RankedMatchups(MatchupRecords(matchups, users, rosters))}
    /\ built = table
    /\ out \in {[kind |-> "stat_7", rows |-> rows] : rows \in Stat7Results(table.rows)}
    /\ line = <<>>
    /\ query = <<>>
    /\ event = "none"
    /\ executed = 0
    /\ reads = 0
    /\ crash = ""

NextLoop == ReadLine \/ ReadFails \/ Interrupt \/ InteractiveQuery

SpecLoop == InitLoop /\ [][NextLoop]_vars

-----------------------------------------------------------------------------
(* Properties of the table built by build_database (SpecDB) *)

SamePartition(t, i, j) == t[i].week = t[j].week /\ t[i].matchup_id = t[j].matchup_id

\* C1: after build_database, every (week, matchup_id) pair that occurs in the
\* table has exactly one row with won = 1 and all its other rows have won = 0,
\* whatever entries were fetched (equal points inside a pair included).
ExactlyOneWinner ==
    table.exists =>
        \A i \in Rows(table.rows) :
            /\ table.rows[i].won \in {0, 1}
            /\ Cardinality({j \in Rows(table.rows) :
                              SamePartition(table.rows, i, j) /\ table.rows[j].won = 1}) = 1

\* C1 witness: a table with two pairs in one week, one of them tied on points
TiedPairBuilt ==
    /\ table.exists
    /\ \E i, j, k \in Rows(table.rows) :
          /\ i # j
          /\ SamePartition(table.rows, i, j)
          /\ table.rows[i].points = table.rows[j].points
          /\ table.rows[k].week = table.rows[i].week
          /\ ~SamePartition(table.rows, i, k)

\* C2: in every (week, matchup_id) partition the row with won = 1 has points >=
\* the points of every other row, won = 1 exactly when rank_in_matchup = 1, and
\* the ranks of a partition of n rows are 1..n in non-increasing order of points.
WinnerHasMostPoints ==
    table.exists =>
        LET t == table.rows
            Part(i) == {j \in Rows(t) : SamePartition(t, i, j)}
        IN \A i \in Rows(t) :
              /\ (t[i].won = 1) <=> (t[i].rank_in_matchup = 1)
              /\ {t[j].rank_in_matchup : j \in Part(i)} = 1..Cardinality(Part(i))
              /\ \A j \in Part(i) :
                    /\ t[i].rank_in_matchup < t[j].rank_in_matchup => t[i].points >= t[j].points
                    /\ t[i].won = 1 => t[i].points >= t[j].points

\* C2 witness: a pair with different points, the higher one ranked 1 and won,
\* the lower one ranked 2 and lost
HigherScoreWon ==
    /\ table.exists
    /\ \E i, j \in Rows(table.rows) :
          /\ SamePartition(table.rows, i, j)
          /\ table.rows[i].points > table.rows[j].points
          /\ table.rows[i].won = 1 /\ table.rows[i].rank_in_matchup = 1
          /\ table.rows[j].won = 0 /\ table.rows[j].rank_in_matchup = 2

\* the name the claim expects for the entry of roster r
ExpectedTeamName(r) ==
    IF /\ r \in DOMAIN rosters
       /\ rosters[r].owner_id \in DOMAIN users
       /\ users[rosters[r].owner_id].metadata.tag = "dict"
       /\ users[rosters[r].owner_id].metadata.team_name \notin {AbsentKey, NoneStr}
    THEN MetaName(users[rosters[r].owner_id].metadata.team_name)
    ELSE SyntheticName(r)

\* C8: team name resolution never fails: build_database raises only for a
\* reason other than a name (a stored body that is no list, no record at all),
\* and every row carries a string: Team_<roster_id> when the roster, its owner
\* or the owner's team-name metadata is missing, the metadata name otherwise.
TeamNameNeverFails ==
    /\ crash = "build_database" =>
          \/ \E w \in DOMAIN matchups : matchups[w].tag # "list"
          \/ \A w \in DOMAIN matchups : matchups[w].items = <<>>
    /\ table.exists =>
          \A i \in Rows(table.rows) :
             table.rows[i].team_name = ExpectedTeamName(table.rows[i].roster_id)

\* the number of rows of t with points p
CountOf(t, p) == Cardinality({i \in DOMAIN t : t[i].points = p})

Max0(a) == IF a > 0 THEN a ELSE 0

\* C9: stat_2 and stat_3b return min(10, n) rows of a table of n rows; the
\* first in non-increasing order of points and holding the highest points of
\* the table, the second in non-decreasing order and holding the lowest.
TopTenReports ==
    LET t == table.rows
        r == out.rows
        k == Min(10, Len(t))
        Above(p) == Cardinality({i \in DOMAIN t : t[i].points > p})
        Below(p) == Cardinality({i \in DOMAIN t : t[i].points < p})
    IN /\ out.kind = "stat_2" =>
            /\ Len(r) = k
            /\ \A a, b \in DOMAIN r : a < b => r[a].points >= r[b].points
            /\ \A p \in {t[i].points : i \in DOMAIN t} :
                  CountOf(r, p) = Max0(Min(CountOf(t, p), k - Above(p)))
       /\ out.kind = "stat_3b" =>
            /\ Len(r) = k
            /\ \A a, b \in DOMAIN r : a < b => r[a].points <= r[b].points
            /\ \A p \in {t[i].points : i \in DOMAIN t} :
                  CountOf(r, p) = Max0(Min(CountOf(t, p), k - Below(p)))

\* C9 witness: the lowest-scores report of a table of more than ten rows, two
\* of them with equal points
BottomTenOfEleven ==
    /\ out.kind = "stat_3b"
    /\ Len(table.rows) > 10
    /\ Len(out.rows) = 10
    /\ \E i, j \in Rows(table.rows) : i # j /\ table.rows[i].points = table.rows[j].points

-----------------------------------------------------------------------------
(* Properties of the fetch steps (Spec) *)

\* the request of week w raised: requests.get itself, or decoding its answer
RequestRaised(w) == requested[w] \in {"raise", "decode"}

\* the request of week w was answered with status 200 and a body
Answered200(w) == requested[w] \in {"stored", "unsized"}

FetchFailureSurvived ==
    \/ crash = ""
    \/ /\ crash = "build_database"
       /\ \A w \in DOMAIN requested : requested[w] # "raise"

-----------------------------------------------------------------------------
(* Properties of the interactive loop (SpecLoop) *)

\* running q against the table t raises whatever the engine does
AlwaysFails(t, q) == \A r \in ExecuteOutcomes(t, q) : r.raises

\* C5: an ad-hoc query on which the engine fails never ends the process:
\* interactive_query catches the failure, reports it and returns no result, and
\* the loop is back at its prompt, whatever queries came before.
QueryFailureContained ==
    [][(pc = "interactive_query" /\ event' # "interrupt") =>
          /\ pc' = "prompt"
          /\ crash' = ""
          /\ executed' = executed + 1
          /\ event' \in {"returned_frame", "returned_none"}
          /\ event' = "returned_none" => out'.kind = "query_error"
          /\ AlwaysFails(table, query) => event' = "returned_none" /\ table' = table]_vars

\* C5 witness: the misspelled query was reported and the next line, another
\* query, has been accepted
NextQueryAfterFailure ==
    /\ pc = "interactive_query"
    /\ out.kind = "query_error"
    /\ executed >= 1
    /\ query = SelectText

\* C6: once build_database has created the table, no later operation adds,
\* removes or updates a row of it or drops it.
TableNeverChanges == built.exists => table = built

QuitLines ==
    {<<"q", "u", "i", "t">>, <<"Q", "U", "I", "T">>, <<" ", " ", "Q", "u", "i", "t", "\t">>}

BlankLines == {<<>>, <<" ", " ", " ">>}

\* C7: each line read is handled in exactly one way: quit (trimmed, any letter
\* case) ends the loop, blank text re-prompts and executes nothing, any other
\* text is executed once and the loop re-prompts; the loop ends only on quit or
\* on an interrupt, never on an error while reading.
LoopHandlesEachLine ==
    [][/\ (pc = "prompt" /\ reads' = reads + 1 /\ event' # "read_error") =>
             /\ line' \in QuitLines => pc' = "exit" /\ event' = "quit"
             /\ line' \in BlankLines => pc' = "prompt" /\ event' = "blank"
             /\ line' \notin QuitLines \cup BlankLines =>
                    pc' = "interactive_query" /\ event' = "query"
             /\ UNCHANGED <<table, out, executed>>
       /\ (pc = "prompt" /\ event' = "read_error") => pc' = "prompt" /\ UNCHANGED <<table, executed>>
       /\ (pc = "interactive_query" /\ event' # "interrupt") =>
             pc' = "prompt" /\ executed' = executed + 1
       /\ (pc # "exit" /\ pc' = "exit") => event' \in {"quit", "interrupt"} /\ crash' = ""
       /\ event' \in {"quit", "interrupt"} => pc' = "exit"]_vars

\* C7 witness: a query was executed once, a blank line and then "  Quit" ended
\* the loop
QuitAfterQuery ==
    /\ pc = "exit"
    /\ event = "quit"
    /\ line = <<" ", " ", "Q", "u", "i", "t", "\t">>
    /\ executed = 1
    /\ reads = 3

====
